---- MODULE Spec2Model ----
(***************************************************************************)
(* Model of backend/src/services/feedbackService.js: the photo_feedback,   *)
(* photos and event_feedback_settings tables, the activity log, and the    *)
(* FeedbackService methods that read and write them.                       *)
(*                                                                         *)
(* JS objects (feedbackData, clientInfo, settings) are records whose       *)
(* DOMAIN holds the fields that are present; a field that is absent reads  *)
(* as undefined.  Strings that the code inspects character by character    *)
(* (the comment) are sequences of one-character strings.  Numbers that may *)
(* be fractional (a rating, AVG) are reduced fractions <<num, den>>.       *)
(* Columns the modelled methods never branch on (timestamps, guest_name,   *)
(* guest_email, ip_address, user_agent) are left out of the rows.          *)
(*                                                                         *)
(* The second part models the PhotoGrid component (unnamed/part_000): its  *)
(* categoryId prop, its three pieces of state, the bulk downloads started  *)
(* by handleDownloadSelected with the promise of each request, and the     *)
(* toasts and analytics events it sends.  An event handler together with   *)
(* the render and effects that follow it is one step.                      *)
(***************************************************************************)
EXTENDS Integers, Sequences, FiniteSets, TLC

VARIABLES rows, nextId, photos, settings, audit, last, calls,
          categoryId, selectedPhotoIndex, selectedPhotos, isSelectionMode,
          downloads, toasts, tracked

\* the state of the service and its tables
serviceVars == <<rows, nextId, photos, settings, audit, last, calls>>

\* the props and state of the PhotoGrid component, the bulk downloads it has
\* started, and the notifications and analytics events it has sent
gridVars == <<categoryId, selectedPhotoIndex, selectedPhotos, isSelectionMode,
              downloads, toasts, tracked>>

vars == <<serviceVars, gridVars>>

(***************************************************************************)
(* Bounds of the model.                                                    *)
(***************************************************************************)
\* highest id the auto-increment key of photo_feedback hands out
MaxId == 2
\* highest number of entries the activity log holds
MaxAudit == 2
\* highest number of bulk downloads the grid starts
MaxBatches == 1

(***************************************************************************)
(* Values.                                                                 *)
(***************************************************************************)
\* SQL NULL / JS null in a column
NULL == <<"NULL">>

\* the result of .first() when no row matches (undefined)
NoRow == [id |-> 0]

\* selectedPhotoIndex when no photo is open (null)
NoIndex == -1

Frac(n, d) == <<n, d>>

Num(n) == <<n, 1>>

RECURSIVE GCD(_, _)
GCD(a, b) == IF b = 0 THEN a ELSE GCD(b, a % b)

Reduce(f) == LET g == GCD(f[1], f[2]) IN <<f[1] \div g, f[2] \div g>>

FracLt(a, b) == a[1] * b[2] < b[1] * a[2]

FracAdd(a, b) == Reduce(<<a[1] * b[2] + b[1] * a[2], a[2] * b[2]>>)

FracDiv(a, k) == Reduce(<<a[1], a[2] * k>>)

Has(obj, f) == f \in DOMAIN obj

Whitespace == {" ", "\t", "\n"}

\* String.prototype.trim
RECURSIVE TrimStart(_)
TrimStart(s) == IF s # <<>> /\ Head(s) \in Whitespace THEN TrimStart(Tail(s)) ELSE s

RECURSIVE TrimEnd(_)
TrimEnd(s) == IF s # <<>> /\ s[Len(s)] \in Whitespace THEN TrimEnd(SubSeq(s, 1, Len(s) - 1)) ELSE s

Trim(s) == TrimEnd(TrimStart(s))

FeedbackTypes == {"like", "rating", "comment", "favorite"}

(***************************************************************************)
(* Inputs: the events, photos, callers and payloads the operations are run *)
(* on.                                                                     *)
(***************************************************************************)
Events == {"e1"}

PhotoIds == {"p1", "p2"}

PhotoEvent == [p \in PhotoIds |-> IF p = "p1" THEN "e1" ELSE "e2"]

ClientInfos == {[guestId |-> "g1"], [ipAddress |-> "ip1"]}

\* the photo and the payloads (all pass the validation) of the calls that run
\* one after the other
SubmitPhotos == {"p1"}

Payloads ==
    {[feedback_type |-> t] : t \in {"like", "favorite"}}
    \cup {[feedback_type |-> "rating", rating |-> r] : r \in {Num(2), Num(5)}}

\* comments, sent with and without the moderate_comments field
CommentPayloads ==
    {[feedback_type |-> "comment", comment |-> c] : c \in {<<"a">>, <<" ", "b">>}}
    \cup {[feedback_type |-> "comment", comment |-> c, moderate_comments |-> TRUE] :
            c \in {<<"a">>, <<" ", "b">>}}

\* every payload the validation is run on
Ratings == {Num(0), Num(1), Frac(5, 2), Num(5), Num(6)}

Comments == {<<>>, <<" ">>, <<"a">>, <<" ", "b">>}

FeedbackDatas ==
    {[feedback_type |-> t] : t \in {"like", "favorite", "rating", "comment", "share", ""}}
    \cup {[guest_name |-> "Ann"]}
    \cup {[feedback_type |-> "rating", rating |-> r] : r \in Ratings}
    \cup {[feedback_type |-> "comment", comment |-> c] : c \in Comments}
    \cup {[feedback_type |-> "comment", comment |-> c, moderate_comments |-> m] :
            c \in Comments, m \in BOOLEAN}

SettingsChanges == {[moderate_comments |-> m] : m \in BOOLEAN}

ModerationActions == {"approve", "hide", "reject"}

\* the requests that may be in flight together
Procs == {"c1", "c2"}

ConcurrentPayloads ==
    {[feedback_type |-> "like"], [feedback_type |-> "rating", rating |-> Num(2)]}

Admins == {"admin"}

(***************************************************************************)
(* submitFeedback: validation, guest identity, lookup and write.           *)
(***************************************************************************)
\* the message of the Error the validation throws, "" when it passes
Validate(fd) ==
    IF ~Has(fd, "feedback_type") \/ fd.feedback_type = ""
          \/ fd.feedback_type \notin FeedbackTypes
    THEN "Invalid feedback type"
    ELSE IF fd.feedback_type = "rating"
               /\ (~Has(fd, "rating") \/ fd.rating[1] = 0
                     \/ FracLt(fd.rating, Num(1)) \/ FracLt(Num(5), fd.rating))
    THEN "Rating must be between 1 and 5"
    ELSE IF fd.feedback_type = "comment"
               /\ (~Has(fd, "comment") \/ fd.comment = <<>> \/ Len(Trim(fd.comment)) = 0)
    THEN "Comment cannot be empty"
    ELSE ""

GuestId(clientInfo) ==
    IF Has(clientInfo, "guestId") /\ clientInfo.guestId # ""
    THEN clientInfo.guestId
    ELSE IF Has(clientInfo, "ipAddress") /\ clientInfo.ipAddress # ""
    THEN clientInfo.ipAddress
    ELSE "anonymous"

\* variant of Matching: the lookup skips hidden rows
MatchingVisible(rws, eventId, photoId, guestId, type) ==
    {r \in rws : /\ r.event_id = eventId
                 /\ r.photo_id = photoId
                 /\ r.guest_identifier = guestId
                 /\ r.feedback_type = type
                 /\ r.is_hidden = FALSE}

\* variant of Matching: the lookup matches only rows that are approved and not
\* hidden
MatchingUnmoderated(rws, eventId, photoId, guestId, type) ==
    {r \in rws : /\ r.event_id = eventId
                 /\ r.photo_id = photoId
                 /\ r.guest_identifier = guestId
                 /\ r.feedback_type = type
                 /\ r.is_approved = TRUE
                 /\ r.is_hidden = FALSE}

\* the rows the existence lookup matches
Matching(rws, eventId, photoId, guestId, type) ==
    {r \in rws : /\ r.event_id = eventId
                 /\ r.photo_id = photoId
                 /\ r.guest_identifier = guestId
                 /\ r.feedback_type = type}

\* what .first() may return for a set of matching rows
First(matches) == IF matches = {} THEN {NoRow} ELSE matches

IsApprovedOnInsert(fd) ==
    fd.feedback_type # "comment" \/ ~(Has(fd, "moderate_comments") /\ fd.moderate_comments)

FeedbackRecord(id, eventId, photoId, guestId, fd) ==
    [id               |-> id,
     event_id         |-> eventId,
     photo_id         |-> photoId,
     guest_identifier |-> guestId,
     feedback_type    |-> fd.feedback_type,
     rating           |-> IF fd.feedback_type = "rating" THEN fd.rating ELSE NULL,
     comment_text     |-> IF fd.feedback_type = "comment" THEN fd.comment ELSE NULL,
     is_approved      |-> IsApprovedOnInsert(fd),
     is_hidden        |-> FALSE]

DbDelete(rws, id) == {r \in rws : r.id # id}

\* variant of UpdateRating: the update is not restricted to the row's id
UpdateRatingAll(rws, id, rating) ==
    {IF r.feedback_type = "rating" THEN [r EXCEPT !.rating = rating] ELSE r : r \in rws}

UpdateRating(rws, id, rating) ==
    {IF r.id = id THEN [r EXCEPT !.rating = rating] ELSE r : r \in rws}

\* variant of UpdateComment: the approval flag is left as it was
UpdateCommentKeepApproval(rws, id, comment) ==
    {IF r.id = id THEN [r EXCEPT !.comment_text = comment] ELSE r : r \in rws}

UpdateComment(rws, id, comment) ==
    {IF r.id = id THEN [r EXCEPT !.comment_text = comment, !.is_approved = TRUE] ELSE r :
        r \in rws}

\* variant of RowsAfterSubmit: an existing like or favorite is kept, not deleted
RowsAfterSubmitKeep(rws, id, existing, eventId, photoId, guestId, fd) ==
    IF existing # NoRow
    THEN IF fd.feedback_type \in {"like", "favorite"}
         THEN rws
         ELSE IF fd.feedback_type = "rating"
         THEN UpdateRating(rws, existing.id, fd.rating)
         ELSE UpdateComment(rws, existing.id, fd.comment)
    ELSE rws \cup {FeedbackRecord(id, eventId, photoId, guestId, fd)}

\* variant of RowsAfterSubmit: the insert is dropped when a row of the key is
\* there at the time of the write
RowsAfterSubmitUnique(rws, id, existing, eventId, photoId, guestId, fd) ==
    IF existing # NoRow
    THEN IF fd.feedback_type \in {"like", "favorite"}
         THEN DbDelete(rws, existing.id)
         ELSE IF fd.feedback_type = "rating"
         THEN UpdateRating(rws, existing.id, fd.rating)
         ELSE UpdateComment(rws, existing.id, fd.comment)
    ELSE IF Matching(rws, eventId, photoId, guestId, fd.feedback_type) # {}
    THEN rws
    ELSE rws \cup {FeedbackRecord(id, eventId, photoId, guestId, fd)}

\* the photo_feedback table after the write that follows the lookup
RowsAfterSubmit(rws, id, existing, eventId, photoId, guestId, fd) ==
    IF existing # NoRow
    THEN IF fd.feedback_type \in {"like", "favorite"}
         THEN DbDelete(rws, existing.id)
         ELSE IF fd.feedback_type = "rating"
         THEN UpdateRating(rws, existing.id, fd.rating)
         ELSE UpdateComment(rws, existing.id, fd.comment)
    ELSE rws \cup {FeedbackRecord(id, eventId, photoId, guestId, fd)}

\* the action field of the value submitFeedback returns
SubmitAction(existing, fd) ==
    IF existing # NoRow
    THEN IF fd.feedback_type \in {"like", "favorite"} THEN "removed" ELSE "updated"
    ELSE "added"

(***************************************************************************)
(* updatePhotoFeedbackStats: the aggregate query and the photo update.     *)
(***************************************************************************)
RECURSIVE SumRatings(_)
SumRatings(rs) ==
    IF rs = {} THEN Num(0)
    ELSE LET r == CHOOSE x \in rs : TRUE
         IN FracAdd(r.rating, SumRatings(rs \ {r}))

\* variant of Avg: integer division
AvgTruncated(rs) ==
    IF rs = {} THEN NULL
    ELSE Num(SumRatings(rs)[1] \div (SumRatings(rs)[2] * Cardinality(rs)))

\* AVG over the non-NULL values, NULL when there is none
Avg(rs) == IF rs = {} THEN NULL ELSE FracDiv(SumRatings(rs), Cardinality(rs))

\* variant of Stats: the aggregate query does not filter on is_hidden
StatsWithHidden(rws, photoId) ==
    LET onPhoto == {r \in rws : r.photo_id = photoId}
    IN [comment_count  |-> Cardinality({r \in onPhoto :
                               r.feedback_type = "comment" /\ r.is_approved = TRUE}),
        like_count     |-> Cardinality({r \in onPhoto : r.feedback_type = "like"}),
        favorite_count |-> Cardinality({r \in onPhoto : r.feedback_type = "favorite"}),
        average_rating |-> Avg({r \in onPhoto :
                               r.feedback_type = "rating" /\ r.rating # NULL}),
        feedback_count |-> Cardinality({r.guest_identifier : r \in onPhoto})]

\* variant of Stats: feedback_count counts rows, not distinct guests
StatsCountingRows(rws, photoId) ==
    LET visible == {r \in rws : r.photo_id = photoId /\ r.is_hidden = FALSE}
    IN [comment_count  |-> Cardinality({r \in visible :
                               r.feedback_type = "comment" /\ r.is_approved = TRUE}),
        like_count     |-> Cardinality({r \in visible : r.feedback_type = "like"}),
        favorite_count |-> Cardinality({r \in visible : r.feedback_type = "favorite"}),
        average_rating |-> Avg({r \in visible :
                               r.feedback_type = "rating" /\ r.rating # NULL}),
        feedback_count |-> Cardinality(visible)]

Stats(rws, photoId) ==
    LET visible == {r \in rws : r.photo_id = photoId /\ r.is_hidden = FALSE}
    IN [comment_count  |-> Cardinality({r \in visible :
                               r.feedback_type = "comment" /\ r.is_approved = TRUE}),
        like_count     |-> Cardinality({r \in visible : r.feedback_type = "like"}),
        favorite_count |-> Cardinality({r \in visible : r.feedback_type = "favorite"}),
        average_rating |-> Avg({r \in visible :
                               r.feedback_type = "rating" /\ r.rating # NULL}),
        feedback_count |-> Cardinality({r.guest_identifier : r \in visible})]

\* the photos table after the update that writes the stats
\* variant of PhotosAfterStats: the aggregates are added to the stored counters
PhotosAfterStatsAdding(phs, photoId, stats) ==
    [p \in DOMAIN phs |->
        IF p = photoId
        THEN [phs[p] EXCEPT
                !.feedback_count = @ + stats.feedback_count,
                !.like_count     = @ + stats.like_count,
                !.average_rating = IF stats.average_rating = NULL THEN @
                                   ELSE stats.average_rating,
                !.favorite_count = @ + stats.favorite_count]
        ELSE phs[p]]

\* variant of PhotosAfterStats: the update is not restricted to the photo's id
PhotosAfterStatsEvery(phs, photoId, stats) ==
    [p \in DOMAIN phs |->
        [phs[p] EXCEPT
            !.feedback_count = stats.feedback_count,
            !.like_count     = stats.like_count,
            !.average_rating = IF stats.average_rating = NULL THEN Num(0)
                               ELSE stats.average_rating,
            !.favorite_count = stats.favorite_count]]

PhotosAfterStats(phs, photoId, stats) ==
    [p \in DOMAIN phs |->
        IF p = photoId
        THEN [phs[p] EXCEPT
                !.feedback_count = stats.feedback_count,
                !.like_count     = stats.like_count,
                !.average_rating = IF stats.average_rating = NULL THEN Num(0)
                                   ELSE stats.average_rating,
                !.favorite_count = stats.favorite_count]
        ELSE phs[p]]

UpdatePhotoFeedbackStats(phs, rws, photoId) ==
    PhotosAfterStats(phs, photoId, Stats(rws, photoId))

(***************************************************************************)
(* The value a call returned or the error it threw.                        *)
(***************************************************************************)
Returned(op, action, id) == [op |-> op, error |-> "", action |-> action, id |-> id]

Threw(op, message) == [op |-> op, error |-> message, action |-> "", id |-> 0]

\* a request slot with no call in flight
IdleCall == [pc |-> "idle"]

(***************************************************************************)
(* Initial state: empty tables, photos with their column defaults.         *)
(***************************************************************************)
Init ==
    /\ rows = {}
    /\ nextId = 1
    /\ photos = [p \in PhotoIds |->
                    [event_id       |-> PhotoEvent[p],
                     comment_count  |-> 0,
                     like_count     |-> 0,
                     favorite_count |-> 0,
                     average_rating |-> Num(0),
                     feedback_count |-> 0]]
    /\ settings = {}
    /\ audit = <<>>
    /\ last = Returned("none", "", 0)
    /\ calls = [c \in Procs |-> IdleCall]
    /\ categoryId = "all"
    /\ selectedPhotoIndex = NoIndex
    /\ selectedPhotos = {}
    /\ isSelectionMode = FALSE
    /\ downloads = <<>>
    /\ toasts = <<>>
    /\ tracked = <<>>

(***************************************************************************)
(* Calls that run to completion before the next one starts.                *)
(***************************************************************************)
SubmitFeedback(eventId, photoId, feedbackData, clientInfo) ==
    LET message == Validate(feedbackData)
        guestId == GuestId(clientInfo)
    IN IF message # ""
       THEN /\ last' = Threw("submitFeedback", message)
            /\ UNCHANGED <<rows, nextId, photos, settings, audit, calls, gridVars>>
       ELSE \E existing \in First(Matching(rows, eventId, photoId, guestId,
                                           feedbackData.feedback_type)) :
              /\ existing = NoRow => nextId <= MaxId
              /\ rows' = RowsAfterSubmit(rows, nextId, existing, eventId, photoId,
                                         guestId, feedbackData)
              /\ nextId' = IF existing = NoRow THEN nextId + 1 ELSE nextId
              /\ photos' = UpdatePhotoFeedbackStats(photos, rows', photoId)
              /\ last' = Returned("submitFeedback", SubmitAction(existing, feedbackData),
                                  IF existing = NoRow THEN nextId ELSE existing.id)
              /\ UNCHANGED <<settings, audit, calls, gridVars>>

Submit ==
    \E e \in Events, p \in SubmitPhotos, fd \in Payloads, ci \in ClientInfos :
        SubmitFeedback(e, p, fd, ci)

(***************************************************************************)
(* getEventFeedbackSettings / updateEventFeedbackSettings.                 *)
(***************************************************************************)
DefaultSettings(eventId) ==
    [event_id             |-> eventId,
     feedback_enabled     |-> FALSE,
     allow_ratings        |-> TRUE,
     allow_likes          |-> TRUE,
     allow_comments       |-> FALSE,
     allow_favorites      |-> TRUE,
     require_name_email   |-> FALSE,
     moderate_comments    |-> TRUE,
     show_feedback_to_guests |-> TRUE]

GetEventFeedbackSettings(tbl, eventId) ==
    IF \E s \in tbl : s.event_id = eventId
    THEN CHOOSE s \in tbl : s.event_id = eventId
    ELSE DefaultSettings(eventId)

\* { ...row, ...changes }
Merge(row, changes) ==
    [f \in DOMAIN row \cup DOMAIN changes |->
        IF f \in DOMAIN changes THEN changes[f] ELSE row[f]]

SettingsAfterUpdate(tbl, eventId, changes) ==
    IF \E s \in tbl : s.event_id = eventId
    THEN {IF s.event_id = eventId THEN Merge(s, changes) ELSE s : s \in tbl}
    ELSE tbl \cup {Merge([event_id |-> eventId], changes)}

\* logActivity(type, details, eventId): one more entry in the activity log
LogActivity(log, type, details, eventId) ==
    Append(log, [activity_type |-> type, details |-> details, event_id |-> eventId])

UpdateEventFeedbackSettings(eventId, changes) ==
    /\ Len(audit) < MaxAudit
    /\ settings' = SettingsAfterUpdate(settings, eventId, changes)
    /\ audit' = LogActivity(audit, "feedback_settings_updated", changes, eventId)
    /\ last' = Returned("updateEventFeedbackSettings", "", 0)
    /\ UNCHANGED <<rows, nextId, photos, calls, gridVars>>

(***************************************************************************)
(* moderateFeedback and deleteFeedback.                                    *)
(***************************************************************************)
\* variant of ModerationUpdates: hide also withdraws the approval
ModerationUpdatesHideUnapproves(action) ==
    IF action = "approve"
    THEN [updated_at |-> "now", is_approved |-> TRUE, is_hidden |-> FALSE]
    ELSE IF action = "hide"
    THEN [updated_at |-> "now", is_approved |-> FALSE, is_hidden |-> TRUE]
    ELSE IF action = "reject"
    THEN [updated_at |-> "now", is_approved |-> FALSE, is_hidden |-> TRUE]
    ELSE [updated_at |-> "now"]

\* the updates object the action builds
ModerationUpdates(action) ==
    IF action = "approve"
    THEN [updated_at |-> "now", is_approved |-> TRUE, is_hidden |-> FALSE]
    ELSE IF action = "hide"
    THEN [updated_at |-> "now", is_hidden |-> TRUE]
    ELSE IF action = "reject"
    THEN [updated_at |-> "now", is_approved |-> FALSE, is_hidden |-> TRUE]
    ELSE [updated_at |-> "now"]

\* .where('id', id).update(updates), on the columns the rows keep
ApplyUpdates(rws, id, updates) ==
    {IF r.id = id
     THEN [f \in DOMAIN r |-> IF f \in DOMAIN updates THEN updates[f] ELSE r[f]]
     ELSE r : r \in rws}

ById(rws, id) == {r \in rws : r.id = id}

\* variant of ModerateFeedback: an action that is none of approve, hide and
\* reject is refused
ModerateFeedbackValidated(feedbackId, action, adminId) ==
    IF action \notin {"approve", "hide", "reject"}
    THEN /\ last' = Threw("moderateFeedback", "Invalid action")
         /\ UNCHANGED <<rows, nextId, photos, settings, audit, calls, gridVars>>
    ELSE \E feedback \in First(ById(rows, feedbackId)) :
        IF feedback = NoRow
        THEN /\ last' = Threw("moderateFeedback", "Feedback not found")
             /\ UNCHANGED <<rows, nextId, photos, settings, audit, calls, gridVars>>
        ELSE /\ Len(audit) < MaxAudit
             /\ rows' = ApplyUpdates(rows, feedbackId, ModerationUpdates(action))
             /\ photos' = UpdatePhotoFeedbackStats(photos, rows', feedback.photo_id)
             /\ audit' = LogActivity(audit, "feedback_moderated",
                                     [feedback_id |-> feedbackId, action |-> action,
                                      admin_id |-> adminId], feedback.event_id)
             /\ last' = Returned("moderateFeedback", "", feedbackId)
             /\ UNCHANGED <<nextId, settings, calls, gridVars>>

ModerateFeedback(feedbackId, action, adminId) ==
    \E feedback \in First(ById(rows, feedbackId)) :
        IF feedback = NoRow
        THEN /\ last' = Threw("moderateFeedback", "Feedback not found")
             /\ UNCHANGED <<rows, nextId, photos, settings, audit, calls, gridVars>>
        ELSE /\ Len(audit) < MaxAudit
             /\ rows' = ApplyUpdates(rows, feedbackId, ModerationUpdates(action))
             /\ photos' = UpdatePhotoFeedbackStats(photos, rows', feedback.photo_id)
             /\ audit' = LogActivity(audit, "feedback_moderated",
                                     [feedback_id |-> feedbackId, action |-> action,
                                      admin_id |-> adminId], feedback.event_id)
             /\ last' = Returned("moderateFeedback", "", feedbackId)
             /\ UNCHANGED <<nextId, settings, calls, gridVars>>

\* variant of DeleteFeedback: the counters are recomputed before the row is
\* deleted
DeleteFeedbackStatsFirst(feedbackId, adminId) ==
    \E feedback \in First(ById(rows, feedbackId)) :
        IF feedback = NoRow
        THEN /\ last' = Threw("deleteFeedback", "Feedback not found")
             /\ UNCHANGED <<rows, nextId, photos, settings, audit, calls, gridVars>>
        ELSE /\ Len(audit) < MaxAudit
             /\ photos' = UpdatePhotoFeedbackStats(photos, rows, feedback.photo_id)
             /\ rows' = DbDelete(rows, feedbackId)
             /\ audit' = LogActivity(audit, "feedback_deleted",
                                     [feedback_id |-> feedbackId,
                                      feedback_type |-> feedback.feedback_type,
                                      admin_id |-> adminId], feedback.event_id)
             /\ last' = Returned("deleteFeedback", "", feedbackId)
             /\ UNCHANGED <<nextId, settings, calls, gridVars>>

\* variant of DeleteFeedback: no check that the lookup found a row
DeleteFeedbackUnchecked(feedbackId, adminId) ==
    /\ Len(audit) < MaxAudit
    /\ rows' = DbDelete(rows, feedbackId)
    /\ photos' = photos
    /\ audit' = LogActivity(audit, "feedback_deleted",
                            [feedback_id |-> feedbackId, admin_id |-> adminId], "")
    /\ last' = Returned("deleteFeedback", "", feedbackId)
    /\ UNCHANGED <<nextId, settings, calls, gridVars>>

DeleteFeedback(feedbackId, adminId) ==
    \E feedback \in First(ById(rows, feedbackId)) :
        IF feedback = NoRow
        THEN /\ last' = Threw("deleteFeedback", "Feedback not found")
             /\ UNCHANGED <<rows, nextId, photos, settings, audit, calls, gridVars>>
        ELSE /\ Len(audit) < MaxAudit
             /\ rows' = DbDelete(rows, feedbackId)
             /\ photos' = UpdatePhotoFeedbackStats(photos, rows', feedback.photo_id)
             /\ audit' = LogActivity(audit, "feedback_deleted",
                                     [feedback_id |-> feedbackId,
                                      feedback_type |-> feedback.feedback_type,
                                      admin_id |-> adminId], feedback.event_id)
             /\ last' = Returned("deleteFeedback", "", feedbackId)
             /\ UNCHANGED <<nextId, settings, calls, gridVars>>

Moderate ==
    \E r \in rows, action \in ModerationActions, admin \in Admins :
        ModerateFeedback(r.id, action, admin)

Delete == \E r \in rows, admin \in Admins : DeleteFeedback(r.id, admin)

Next == Submit \/ Moderate \/ Delete

Spec == Init /\ [][Next]_vars

(***************************************************************************)
(* Comments and their moderation.                                          *)
(***************************************************************************)
SubmitComment ==
    \E e \in Events, p \in SubmitPhotos, fd \in CommentPayloads, ci \in ClientInfos :
        SubmitFeedback(e, p, fd, ci)

NextComments == SubmitComment \/ Moderate \/ Delete

SpecComments == Init /\ [][NextComments]_vars

(***************************************************************************)
(* Submissions of every payload, valid or not, and settings updates.       *)
(***************************************************************************)
SubmitAny ==
    \E e \in Events, p \in PhotoIds, fd \in FeedbackDatas, ci \in ClientInfos :
        SubmitFeedback(e, p, fd, ci)

UpdateSettings ==
    \E e \in Events, s \in SettingsChanges : UpdateEventFeedbackSettings(e, s)

NextSubmit == SubmitAny \/ UpdateSettings

SpecSubmit == Init /\ [][NextSubmit]_vars

(***************************************************************************)
(* Moderation and deletion by any feedback id, whether a row has it or     *)
(* not, over rows of several types.                                        *)
(***************************************************************************)
FeedbackIds == 1..MaxId

\* the submissions: who sends which payload
AdminSubmissions ==
    {<<[feedback_type |-> "like"], [guestId |-> "g1"]>>,
     <<[feedback_type |-> "rating", rating |-> Num(2)], [guestId |-> "g1"]>>,
     <<[feedback_type |-> "rating", rating |-> Num(5)], [ipAddress |-> "ip1"]>>,
     <<[feedback_type |-> "comment", comment |-> <<"a">>], [ipAddress |-> "ip1"]>>}

SubmitForAdmin ==
    \E e \in Events, p \in SubmitPhotos, s \in AdminSubmissions :
        SubmitFeedback(e, p, s[1], s[2])

ModerateById ==
    \E id \in FeedbackIds, action \in ModerationActions, admin \in Admins :
        ModerateFeedback(id, action, admin)

DeleteById == \E id \in FeedbackIds, admin \in Admins : DeleteFeedback(id, admin)

NextAdmin == SubmitForAdmin \/ ModerateById \/ DeleteById

SpecAdmin == Init /\ [][NextAdmin]_vars

\* a moderation action that is none of the three the code names
UnknownActions == {"unhide"}

ModerateUnknown ==
    \E id \in FeedbackIds, action \in UnknownActions, admin \in Admins :
        ModerateFeedback(id, action, admin)

NextUnknown == SubmitForAdmin \/ ModerateById \/ ModerateUnknown

SpecUnknown == Init /\ [][NextUnknown]_vars

(***************************************************************************)
(* Comments that are sent again, under either moderation setting of the    *)
(* event and after any moderation of the row.                              *)
(***************************************************************************)
EditPayloads ==
    {[feedback_type |-> "comment", comment |-> <<"a">>],
     [feedback_type |-> "comment", comment |-> <<" ", "b">>, moderate_comments |-> TRUE]}

SubmitEdit ==
    \E e \in Events, p \in SubmitPhotos, fd \in EditPayloads, ci \in ClientInfos :
        SubmitFeedback(e, p, fd, ci)

NextEdit == SubmitEdit \/ UpdateSettings \/ Moderate

SpecEdit == Init /\ [][NextEdit]_vars

(***************************************************************************)
(* getFilteredPhotos over likes and favorites of two guests in two events, *)
(* some of them hidden.                                                    *)
(***************************************************************************)
FilterEvents == {"e1", "e2"}

FilterGuests == {"g1", "ip1"}

\* the submissions: event, photo, payload and sender
FilterSubmissions ==
    {<<"e1", p, [feedback_type |-> t], [guestId |-> "g1"]>> :
        p \in PhotoIds, t \in {"like", "favorite"}}
    \cup {<<"e2", "p1", [feedback_type |-> "like"], [guestId |-> "g1"]>>,
          <<"e1", "p1", [feedback_type |-> "like"], [ipAddress |-> "ip1"]>>}

\* the filters argument; <<>> is the object without fields
Filters ==
    {<<>>, [liked |-> TRUE], [favorited |-> TRUE],
     [liked |-> FALSE, favorited |-> TRUE], [liked |-> TRUE, operator |-> "AND"],
     [liked |-> TRUE, favorited |-> TRUE]}
    \cup {[liked |-> TRUE, favorited |-> TRUE, operator |-> o] : o \in {"OR", "AND"}}

\* variant of FilteredPhotos: the feedback queries do not filter on is_hidden
FilteredPhotosWithHidden(rws, phs, eventId, guestIdentifier, filters) ==
    LET liked     == Has(filters, "liked") /\ filters.liked
        favorited == Has(filters, "favorited") /\ filters.favorited
        operator  == IF Has(filters, "operator") THEN filters.operator ELSE "OR"
        query     == {r \in rws : /\ r.event_id = eventId
                                    /\ r.guest_identifier = guestIdentifier}
    IN IF ~liked /\ ~favorited
       THEN {p \in DOMAIN phs : phs[p].event_id = eventId}
       ELSE IF operator = "AND" /\ liked /\ favorited
       THEN LET likedIds     == {r.photo_id : r \in {q \in query : q.feedback_type = "like"}}
                favoritedIds == {r.photo_id :
                                    r \in {q \in query : q.feedback_type = "favorite"}}
            IN {id \in likedIds : id \in favoritedIds}
       ELSE LET feedbackTypes == (IF liked THEN {"like"} ELSE {})
                                    \cup (IF favorited THEN {"favorite"} ELSE {})
            IN {r.photo_id : r \in {q \in query : q.feedback_type \in feedbackTypes}}

\* the photo ids getFilteredPhotos returns
FilteredPhotos(rws, phs, eventId, guestIdentifier, filters) ==
    LET liked     == Has(filters, "liked") /\ filters.liked
        favorited == Has(filters, "favorited") /\ filters.favorited
        operator  == IF Has(filters, "operator") THEN filters.operator ELSE "OR"
        query     == {r \in rws : /\ r.event_id = eventId
                                    /\ r.guest_identifier = guestIdentifier
                                    /\ r.is_hidden = FALSE}
    IN IF ~liked /\ ~favorited
       THEN {p \in DOMAIN phs : phs[p].event_id = eventId}
       ELSE IF operator = "AND" /\ liked /\ favorited
       THEN LET likedIds     == {r.photo_id : r \in {q \in query : q.feedback_type = "like"}}
                favoritedIds == {r.photo_id :
                                    r \in {q \in query : q.feedback_type = "favorite"}}
            IN {id \in likedIds : id \in favoritedIds}
       ELSE LET feedbackTypes == (IF liked THEN {"like"} ELSE {})
                                    \cup (IF favorited THEN {"favorite"} ELSE {})
            IN {r.photo_id : r \in {q \in query : q.feedback_type \in feedbackTypes}}

GetFilteredPhotos(eventId, guestIdentifier, filters) ==
    /\ last' = [op |-> "getFilteredPhotos", error |-> "", action |-> "", id |-> 0,
                args |-> <<eventId, guestIdentifier, filters>>,
                result |-> FilteredPhotos(rows, photos, eventId, guestIdentifier, filters)]
    /\ UNCHANGED <<rows, nextId, photos, settings, audit, calls, gridVars>>

SubmitForFilter == \E s \in FilterSubmissions : SubmitFeedback(s[1], s[2], s[3], s[4])

Hide == \E r \in rows, admin \in Admins : ModerateFeedback(r.id, "hide", admin)

Filter ==
    \E e \in FilterEvents, g \in FilterGuests, f \in Filters : GetFilteredPhotos(e, g, f)

NextFilter == SubmitForFilter \/ Hide \/ Filter

SpecFilter == Init /\ [][NextFilter]_vars

\* the submissions and the moderations that hide a row
Reject == \E r \in rows, admin \in Admins : ModerateFeedback(r.id, "reject", admin)

NextHidden == SubmitForFilter \/ Hide \/ Reject

SpecHidden == Init /\ [][NextHidden]_vars

(***************************************************************************)
(* Overlapping submitFeedback calls: each await of the handler is a step,  *)
(* and the steps of the calls in flight interleave.                        *)
(***************************************************************************)
BeginSubmit(c, eventId, photoId, feedbackData, clientInfo) ==
    /\ calls[c].pc = "idle"
    /\ IF Validate(feedbackData) # ""
       THEN /\ last' = Threw("submitFeedback", Validate(feedbackData))
            /\ UNCHANGED <<rows, nextId, photos, settings, audit, calls, gridVars>>
       ELSE /\ calls' = [calls EXCEPT ![c] =
                            [pc           |-> "lookup",
                             op           |-> "submitFeedback",
                             eventId      |-> eventId,
                             photoId      |-> photoId,
                             feedbackData |-> feedbackData,
                             guestId      |-> GuestId(clientInfo)]]
            /\ UNCHANGED <<rows, nextId, photos, settings, audit, last, gridVars>>

LookupExisting(c) ==
    /\ calls[c].pc = "lookup"
    /\ \E existing \in First(Matching(rows, calls[c].eventId, calls[c].photoId,
                                      calls[c].guestId,
                                      calls[c].feedbackData.feedback_type)) :
          calls' = [calls EXCEPT ![c] =
                       [f \in DOMAIN @ \cup {"existing"} |->
                           IF f = "existing" THEN existing
                           ELSE IF f = "pc" THEN "write" ELSE @[f]]]
    /\ UNCHANGED <<rows, nextId, photos, settings, audit, last, gridVars>>

WriteFeedback(c) ==
    /\ calls[c].pc = "write"
    /\ calls[c].existing = NoRow => nextId <= MaxId
    /\ rows' = RowsAfterSubmit(rows, nextId, calls[c].existing, calls[c].eventId,
                               calls[c].photoId, calls[c].guestId, calls[c].feedbackData)
    /\ nextId' = IF calls[c].existing = NoRow THEN nextId + 1 ELSE nextId
    /\ calls' = [calls EXCEPT ![c] =
                    [f \in DOMAIN @ \cup {"result"} |->
                        IF f = "result"
                        THEN Returned("submitFeedback",
                                      SubmitAction(calls[c].existing, calls[c].feedbackData),
                                      IF calls[c].existing = NoRow THEN nextId
                                      ELSE calls[c].existing.id)
                        ELSE IF f = "pc" THEN "stats" ELSE @[f]]]
    /\ UNCHANGED <<photos, settings, audit, last, gridVars>>

QueryStats(c) ==
    /\ calls[c].pc = "stats"
    /\ calls' = [calls EXCEPT ![c] =
                    [f \in DOMAIN @ \cup {"stats"} |->
                        IF f = "stats" THEN Stats(rows, calls[c].photoId)
                        ELSE IF f = "pc" THEN "update" ELSE @[f]]]
    /\ UNCHANGED <<rows, nextId, photos, settings, audit, last, gridVars>>

\* variant of UpdatePhoto: the aggregates are read again when the photo is
\* written
UpdatePhotoRereading(c) ==
    /\ calls[c].pc = "update"
    /\ photos' = UpdatePhotoFeedbackStats(photos, rows, calls[c].photoId)
    /\ IF calls[c].op \in {"moderateFeedback", "deleteFeedback"}
       THEN /\ calls' = [calls EXCEPT ![c].pc = "log"]
            /\ UNCHANGED last
       ELSE /\ last' = calls[c].result
            /\ calls' = [calls EXCEPT ![c] = IdleCall]
    /\ UNCHANGED <<rows, nextId, settings, audit, gridVars>>

\* the photos update of updatePhotoFeedbackStats; submitFeedback and a direct
\* call return after it, moderateFeedback and deleteFeedback go on to log
UpdatePhoto(c) ==
    /\ calls[c].pc = "update"
    /\ photos' = PhotosAfterStats(photos, calls[c].photoId, calls[c].stats)
    /\ IF calls[c].op \in {"moderateFeedback", "deleteFeedback"}
       THEN /\ calls' = [calls EXCEPT ![c].pc = "log"]
            /\ UNCHANGED last
       ELSE /\ last' = calls[c].result
            /\ calls' = [calls EXCEPT ![c] = IdleCall]
    /\ UNCHANGED <<rows, nextId, settings, audit, gridVars>>

Begin ==
    \E c \in Procs, e \in Events, p \in SubmitPhotos, fd \in ConcurrentPayloads,
       ci \in ClientInfos :
        BeginSubmit(c, e, p, fd, ci)

Lookup == \E c \in Procs : LookupExisting(c)

Write == \E c \in Procs : WriteFeedback(c)

Query == \E c \in Procs : QueryStats(c)

Update == \E c \in Procs : UpdatePhoto(c)

NextConc == Begin \/ Lookup \/ Write \/ Query \/ Update

SpecConc == Init /\ [][NextConc]_vars

(***************************************************************************)
(* Overlapping submitFeedback, moderateFeedback, deleteFeedback and        *)
(* updatePhotoFeedbackStats calls on one photo, step by step.              *)
(***************************************************************************)
\* the calls in flight that will write to the activity log
Logging == {c \in Procs : calls[c].pc # "idle" /\ calls[c].op \in {"moderateFeedback",
                                                                    "deleteFeedback"}}

BeginModerate(c, feedbackId, action, adminId) ==
    /\ calls[c].pc = "idle"
    /\ Len(audit) + Cardinality(Logging) < MaxAudit
    /\ calls' = [calls EXCEPT ![c] =
                    [pc         |-> "find",
                     op         |-> "moderateFeedback",
                     feedbackId |-> feedbackId,
                     action     |-> action,
                     adminId    |-> adminId]]
    /\ UNCHANGED <<rows, nextId, photos, settings, audit, last, gridVars>>

BeginDelete(c, feedbackId, adminId) ==
    /\ calls[c].pc = "idle"
    /\ Len(audit) + Cardinality(Logging) < MaxAudit
    /\ calls' = [calls EXCEPT ![c] =
                    [pc         |-> "find",
                     op         |-> "deleteFeedback",
                     feedbackId |-> feedbackId,
                     adminId    |-> adminId]]
    /\ UNCHANGED <<rows, nextId, photos, settings, audit, last, gridVars>>

\* a direct call of updatePhotoFeedbackStats(photoId)
BeginStats(c, photoId) ==
    /\ calls[c].pc = "idle"
    /\ calls' = [calls EXCEPT ![c] =
                    [pc      |-> "stats",
                     op      |-> "updatePhotoFeedbackStats",
                     photoId |-> photoId,
                     result  |-> Returned("updatePhotoFeedbackStats", "", 0)]]
    /\ UNCHANGED <<rows, nextId, photos, settings, audit, last, gridVars>>

\* the lookup by id of moderateFeedback and deleteFeedback
FindFeedback(c) ==
    /\ calls[c].pc = "find"
    /\ \E feedback \in First(ById(rows, calls[c].feedbackId)) :
          IF feedback = NoRow
          THEN /\ last' = Threw(calls[c].op, "Feedback not found")
               /\ calls' = [calls EXCEPT ![c] = IdleCall]
          ELSE /\ calls' = [calls EXCEPT ![c] =
                               [f \in DOMAIN @ \cup {"feedback", "photoId"} |->
                                   IF f = "feedback" THEN feedback
                                   ELSE IF f = "photoId" THEN feedback.photo_id
                                   ELSE IF f = "pc" THEN "apply" ELSE @[f]]]
               /\ UNCHANGED last
    /\ UNCHANGED <<rows, nextId, photos, settings, audit, gridVars>>

\* the update of moderateFeedback, the delete of deleteFeedback
ApplyToRow(c) ==
    /\ calls[c].pc = "apply"
    /\ rows' = IF calls[c].op = "moderateFeedback"
               THEN ApplyUpdates(rows, calls[c].feedbackId, ModerationUpdates(calls[c].action))
               ELSE DbDelete(rows, calls[c].feedbackId)
    /\ calls' = [calls EXCEPT ![c].pc = "stats"]
    /\ UNCHANGED <<nextId, photos, settings, audit, last, gridVars>>

LogAndReturn(c) ==
    /\ calls[c].pc = "log"
    /\ audit' = IF calls[c].op = "moderateFeedback"
                THEN LogActivity(audit, "feedback_moderated",
                                 [feedback_id |-> calls[c].feedbackId,
                                  action |-> calls[c].action,
                                  admin_id |-> calls[c].adminId],
                                 calls[c].feedback.event_id)
                ELSE LogActivity(audit, "feedback_deleted",
                                 [feedback_id |-> calls[c].feedbackId,
                                  feedback_type |-> calls[c].feedback.feedback_type,
                                  admin_id |-> calls[c].adminId],
                                 calls[c].feedback.event_id)
    /\ last' = Returned(calls[c].op, "", calls[c].feedbackId)
    /\ calls' = [calls EXCEPT ![c] = IdleCall]
    /\ UNCHANGED <<rows, nextId, photos, settings, gridVars>>

OverlapPayloads == {[feedback_type |-> "like"]}

OverlapClients == {[guestId |-> "g1"]}

OverlapActions == {"hide"}

SubmitOverlap ==
    \E c \in Procs, e \in Events, p \in SubmitPhotos, fd \in OverlapPayloads,
       ci \in OverlapClients :
        BeginSubmit(c, e, p, fd, ci)

ModerateOverlap ==
    \E c \in Procs, r \in rows, action \in OverlapActions, admin \in Admins :
        BeginModerate(c, r.id, action, admin)

DeleteOverlap == \E c \in Procs, r \in rows, admin \in Admins : BeginDelete(c, r.id, admin)

Find == \E c \in Procs : FindFeedback(c)

Apply == \E c \in Procs : ApplyToRow(c)

Log == \E c \in Procs : LogAndReturn(c)

NextOverlap ==
    \/ SubmitOverlap \/ ModerateOverlap \/ DeleteOverlap
    \/ Lookup \/ Write \/ Find \/ Apply \/ Query \/ Update \/ Log

SpecOverlap == Init /\ [][NextOverlap]_vars

(***************************************************************************)
(* Direct calls of updatePhotoFeedbackStats next to overlapping            *)
(* submissions.                                                            *)
(***************************************************************************)
RecomputePayloads ==
    {[feedback_type |-> "like"], [feedback_type |-> "rating", rating |-> Num(2)]}

SubmitRecompute ==
    \E c \in Procs, e \in Events, p \in SubmitPhotos, fd \in RecomputePayloads,
       ci \in OverlapClients :
        BeginSubmit(c, e, p, fd, ci)

Recompute == \E c \in Procs, p \in SubmitPhotos : BeginStats(c, p)

NextRecompute == SubmitRecompute \/ Recompute \/ Lookup \/ Write \/ Query \/ Update

SpecRecompute == Init /\ [][NextRecompute]_vars

(***************************************************************************)
(* PhotoGrid: selection, lightbox and bulk download.                       *)
(***************************************************************************)
\* the values of the categoryId prop: "all" is null (no filter), "c1" a category
Categories == {"all", "c1"}

\* the ids of the photos prop, in order, under each category filter
GridPhotos(category) == IF category = "all" THEN <<1, 2>> ELSE <<2>>

\* photos.map(p => p.id) as a set
GridIds(category) == {GridPhotos(category)[i] : i \in 1..Len(GridPhotos(category))}

\* the array indices of the photos prop
Indices(category) == 0..(Len(GridPhotos(category)) - 1)

\* newSelected after the delete or the add
Toggled(selected, id) == IF id \in selected THEN selected \ {id} ELSE selected \cup {id}

\* variant of HandlePhotoClick: only ctrl/cmd selects, a plain click opens the
\* lightbox in selection mode too
HandlePhotoClickModeless(index, ctrlOrMeta) ==
    LET id == GridPhotos(categoryId)[index + 1]
    IN /\ IF ctrlOrMeta
          THEN /\ isSelectionMode' = TRUE
               /\ selectedPhotos' = Toggled(selectedPhotos, id)
               /\ UNCHANGED selectedPhotoIndex
          ELSE /\ selectedPhotoIndex' = index
               /\ UNCHANGED <<isSelectionMode, selectedPhotos>>
       /\ UNCHANGED <<categoryId, downloads, toasts, tracked, serviceVars>>

HandlePhotoClick(index, ctrlOrMeta) ==
    LET id == GridPhotos(categoryId)[index + 1]
    IN /\ IF ctrlOrMeta
          THEN /\ isSelectionMode' = TRUE
               /\ selectedPhotos' = Toggled(selectedPhotos, id)
               /\ UNCHANGED selectedPhotoIndex
          ELSE IF isSelectionMode
          THEN /\ selectedPhotos' = Toggled(selectedPhotos, id)
               /\ UNCHANGED <<isSelectionMode, selectedPhotoIndex>>
          ELSE /\ selectedPhotoIndex' = index
               /\ UNCHANGED <<isSelectionMode, selectedPhotos>>
       /\ UNCHANGED <<categoryId, downloads, toasts, tracked, serviceVars>>

\* onClose of the lightbox, which is rendered while an index is set
CloseLightbox ==
    /\ selectedPhotoIndex # NoIndex
    /\ selectedPhotoIndex' = NoIndex
    /\ UNCHANGED <<categoryId, selectedPhotos, isSelectionMode, downloads, toasts,
                   tracked, serviceVars>>

\* the selection controls are rendered when there is more than one photo
ControlsShown == Len(GridPhotos(categoryId)) > 1

\* variant of ToggleSelectionMode: the mode flips and the selection stays
ToggleSelectionModeKeeping ==
    /\ ControlsShown
    /\ isSelectionMode' = ~isSelectionMode
    /\ UNCHANGED <<categoryId, selectedPhotoIndex, selectedPhotos, downloads, toasts,
                   tracked, serviceVars>>

ToggleSelectionMode ==
    /\ ControlsShown
    /\ isSelectionMode' = ~isSelectionMode
    /\ selectedPhotos' = {}
    /\ UNCHANGED <<categoryId, selectedPhotoIndex, downloads, toasts, tracked, serviceVars>>

\* the "select all" button shown outside selection mode
EnterAndSelectAll ==
    /\ ControlsShown
    /\ ~isSelectionMode
    /\ isSelectionMode' = TRUE
    /\ selectedPhotos' = GridIds(categoryId)
    /\ UNCHANGED <<categoryId, selectedPhotoIndex, downloads, toasts, tracked, serviceVars>>

SelectAll ==
    /\ ControlsShown
    /\ isSelectionMode
    /\ selectedPhotos' = GridIds(categoryId)
    /\ UNCHANGED <<categoryId, selectedPhotoIndex, isSelectionMode, downloads, toasts,
                   tracked, serviceVars>>

DeselectAll ==
    /\ ControlsShown
    /\ isSelectionMode
    /\ selectedPhotos' = {}
    /\ UNCHANGED <<categoryId, selectedPhotoIndex, isSelectionMode, downloads, toasts,
                   tracked, serviceVars>>

\* the outcomes of a download request
Outcomes == {"fulfilled", "rejected"}

\* variant of Caught: the request's promise is awaited as it is
Uncaught(state) == state

\* the state of promise.catch(err => null), given the state of the promise
Caught(state) == IF state = "rejected" THEN "fulfilled" ELSE state

\* the state of Promise.all over promises in the given states
PromiseAll(states) ==
    IF \E i \in DOMAIN states : states[i] = "rejected" THEN "rejected"
    ELSE IF \A i \in DOMAIN states : states[i] = "fulfilled" THEN "fulfilled"
    ELSE "pending"

\* photos.filter(p => selectedPhotos.has(p.id))
RECURSIVE Filtered(_, _)
Filtered(ids, selected) ==
    IF ids = <<>> THEN <<>>
    ELSE IF Head(ids) \in selected THEN <<Head(ids)>> \o Filtered(Tail(ids), selected)
    ELSE Filtered(Tail(ids), selected)

\* the state of the promise handleDownloadSelected awaits
Awaited(batch) ==
    PromiseAll([i \in DOMAIN batch.requests |-> Caught(batch.requests[i].state)])

\* handleDownloadSelected up to its await; the button is rendered in
\* selection mode while something is selected
HandleDownloadSelected ==
    /\ ControlsShown
    /\ isSelectionMode
    /\ selectedPhotos # {}
    /\ Len(downloads) < MaxBatches
    /\ IF Cardinality(selectedPhotos) = 0
       THEN UNCHANGED <<downloads, toasts>>
       ELSE LET selectedPhotosList == Filtered(GridPhotos(categoryId), selectedPhotos)
            IN /\ toasts' = Append(toasts, [kind  |-> "info",
                                            count |-> Cardinality(selectedPhotos)])
               /\ downloads' = Append(downloads,
                      [requests |-> [i \in 1..Len(selectedPhotosList) |->
                                        [photoId |-> selectedPhotosList[i],
                                         state   |-> "pending"]],
                       count    |-> Cardinality(selectedPhotos),
                       pc       |-> "await"])
    /\ UNCHANGED <<categoryId, selectedPhotoIndex, selectedPhotos, isSelectionMode,
                   tracked, serviceVars>>

\* galleryService.downloadPhoto of one request succeeds or fails
SettleDownload(b, i, outcome) ==
    /\ downloads[b].requests[i].state = "pending"
    /\ downloads' = [downloads EXCEPT ![b].requests[i].state = outcome]
    /\ UNCHANGED <<categoryId, selectedPhotoIndex, selectedPhotos, isSelectionMode,
                   toasts, tracked, serviceVars>>

\* handleDownloadSelected after its await: the try block when the awaited
\* promise is fulfilled, the catch block when it is rejected
FinishDownload(b) ==
    /\ downloads[b].pc = "await"
    /\ Awaited(downloads[b]) # "pending"
    /\ downloads' = [downloads EXCEPT ![b].pc = "done"]
    /\ IF Awaited(downloads[b]) = "fulfilled"
       THEN /\ toasts' = Append(toasts, [kind |-> "success", count |-> downloads[b].count])
            /\ tracked' = Append(tracked, [event       |-> "bulk_download",
                                           photo_count |-> downloads[b].count])
            /\ selectedPhotos' = {}
            /\ isSelectionMode' = FALSE
       ELSE /\ toasts' = Append(toasts, [kind |-> "error", count |-> 0])
            /\ UNCHANGED <<tracked, selectedPhotos, isSelectionMode>>
    /\ UNCHANGED <<categoryId, selectedPhotoIndex, serviceVars>>

\* variant of ChangeCategory: no effect runs on [categoryId]
ChangeCategoryKeeping(category) ==
    /\ category # categoryId
    /\ categoryId' = category
    /\ UNCHANGED <<selectedPhotoIndex, selectedPhotos, isSelectionMode, downloads, toasts,
                   tracked, serviceVars>>

\* the parent passes another categoryId (and the photos under it); the effect
\* on [categoryId] runs after the render
ChangeCategory(category) ==
    /\ category # categoryId
    /\ categoryId' = category
    /\ selectedPhotos' = {}
    /\ UNCHANGED <<selectedPhotoIndex, isSelectionMode, downloads, toasts, tracked,
                   serviceVars>>

Click ==
    \E index \in Indices(categoryId), ctrlOrMeta \in BOOLEAN :
        HandlePhotoClick(index, ctrlOrMeta)

Settle ==
    \E b \in DOMAIN downloads :
        \E i \in DOMAIN downloads[b].requests, outcome \in Outcomes :
            SettleDownload(b, i, outcome)

Finish == \E b \in DOMAIN downloads : FinishDownload(b)

SetCategory == \E category \in Categories : ChangeCategory(category)

NextGrid ==
    \/ Click \/ CloseLightbox \/ ToggleSelectionMode \/ EnterAndSelectAll
    \/ SelectAll \/ DeselectAll \/ HandleDownloadSelected
    \/ Settle \/ Finish \/ SetCategory

SpecGrid == Init /\ [][NextGrid]_vars

(***************************************************************************)
(* Submissions of two guests on two photos: inserts, rating updates and    *)
(* like toggles.                                                           *)
(***************************************************************************)
FramePayloads ==
    {[feedback_type |-> "like"]}
    \cup {[feedback_type |-> "rating", rating |-> r] : r \in {Num(2), Num(5)}}

SubmitFrame ==
    \E e \in Events, p \in PhotoIds, fd \in FramePayloads, ci \in ClientInfos :
        SubmitFeedback(e, p, fd, ci)

NextFrame == SubmitFrame

SpecFrame == Init /\ [][NextFrame]_vars

(***************************************************************************)
(* Properties.                                                             *)
(***************************************************************************)
Toggles == {"like", "favorite"}

\* C1: for every guest, photo and type in {like, favorite}: a submitFeedback
\* call that finds no row of (event, photo, guest, type) returns action
\* 'added' and leaves exactly one such row, and the submitFeedback call of the
\* same (event, photo, guest, type) that runs right after it returns action
\* 'removed' and leaves no such row.
ToggleAddedThenRemoved ==
    [][\A e \in Events, p \in PhotoIds, ci \in ClientInfos, t \in Toggles :
          SubmitFeedback(e, p, [feedback_type |-> t], ci) =>
              LET before == Matching(rows, e, p, GuestId(ci), t)
                  after  == Matching(rows', e, p, GuestId(ci), t)
              IN /\ before = {} =>
                        /\ last'.error = "" /\ last'.action = "added"
                        /\ Cardinality(after) = 1
                 /\ (/\ last.op = "submitFeedback" /\ last.action = "added"
                     /\ \E r \in before : r.id = last.id) =>
                        /\ last'.error = "" /\ last'.action = "removed"
                        /\ after = {}]_vars

\* the state after exactly two calls: a like or favorite added as row 1, then removed
ToggleWitness ==
    /\ rows = {}
    /\ nextId = 2
    /\ audit = <<>>
    /\ last = Returned("submitFeedback", "removed", 1)

SameKey(r1, r2) ==
    /\ r1.event_id = r2.event_id
    /\ r1.photo_id = r2.photo_id
    /\ r1.guest_identifier = r2.guest_identifier
    /\ r1.feedback_type = r2.feedback_type

\* C2: when the calls do not overlap, every reachable state holds at most one
\* feedback row per (event, photo, guest, feedback_type).
OneRowPerKey == \A r1, r2 \in rows : SameKey(r1, r2) => r1 = r2

\* a second submission of a key met the row of the first, hidden meanwhile
OneRowPerKeyWitness ==
    /\ last.op = "submitFeedback"
    /\ last.action \in {"removed", "updated"}
    /\ Len(audit) > 0
    /\ audit[Len(audit)].details.feedback_id = last.id

\* C3: when the first two submitFeedback calls overlap, are of the same
\* (event, photo, guest, feedback_type), have both seen no row in their lookup
\* (so both lookups ran before either write) and have both written, two rows
\* of that key exist.
OverlappingSubmitsBothInsert ==
    \A c1, c2 \in Procs :
        (/\ c1 # c2
         /\ last.op = "none"
         /\ calls[c1].pc \in {"stats", "update"}
         /\ calls[c2].pc \in {"stats", "update"}
         /\ calls[c1].existing = NoRow
         /\ calls[c2].existing = NoRow
         /\ calls[c1].eventId = calls[c2].eventId
         /\ calls[c1].photoId = calls[c2].photoId
         /\ calls[c1].guestId = calls[c2].guestId
         /\ calls[c1].feedbackData.feedback_type = calls[c2].feedbackData.feedback_type)
        => Cardinality(Matching(rows, calls[c1].eventId, calls[c1].photoId,
                                calls[c1].guestId,
                                calls[c1].feedbackData.feedback_type)) = 2

\* both of two overlapping calls have inserted: two rows of one
\* (event, photo, guest, feedback_type)
DuplicateRows ==
    /\ \E r1, r2 \in rows : r1 # r2 /\ SameKey(r1, r2)
    /\ last.op = "none"
    /\ \A c \in Procs : calls[c].pc = "stats" /\ calls[c].existing = NoRow

RatingPayloads == {fd \in Payloads : fd.feedback_type = "rating"}

\* C4: a rating in 1..5 submitted by a guest who has a rating row on the photo
\* updates that row in place: no row is inserted or deleted, no other row
\* changes, the guest still has one rating row on the photo and its rating is
\* the submitted value.
RatingUpdatedInPlace ==
    [][\A e \in Events, p \in PhotoIds, ci \in ClientInfos, fd \in RatingPayloads :
          (/\ Matching(rows, e, p, GuestId(ci), "rating") # {}
           /\ SubmitFeedback(e, p, fd, ci)) =>
              \E old \in Matching(rows, e, p, GuestId(ci), "rating") :
                  /\ rows' = (rows \ {old}) \cup {[old EXCEPT !.rating = fd.rating]}
                  /\ Cardinality(Matching(rows', e, p, GuestId(ci), "rating")) = 1
                  /\ Cardinality(rows') = Cardinality(rows)]_vars

\* a rating was resubmitted while another guest's rating row exists
RatingUpdateWitness ==
    /\ last = Returned("submitFeedback", "updated", 1)
    /\ \E r1, r2 \in rows :
          /\ r1.id = 1 /\ r1.feedback_type = "rating" /\ r1.rating = Num(5)
          /\ r2.id = 2 /\ r2.feedback_type = "rating" /\ r2.photo_id = r1.photo_id

IsInteger(f) == f[2] = 1

\* the payloads the validation is to reject
Invalid(fd) ==
    \/ ~Has(fd, "feedback_type")
    \/ fd.feedback_type \notin FeedbackTypes
    \/ /\ fd.feedback_type = "rating"
       /\ \/ ~Has(fd, "rating")
          \/ ~IsInteger(fd.rating)
          \/ fd.rating[1] < 1
          \/ fd.rating[1] > 5
    \/ /\ fd.feedback_type = "comment"
       /\ \/ ~Has(fd, "comment")
          \/ \A i \in 1..Len(fd.comment) : fd.comment[i] \in Whitespace

ValidationErrors ==
    {"Invalid feedback type", "Rating must be between 1 and 5", "Comment cannot be empty"}

\* C5: submitFeedback fails with a validation error and leaves the feedback
\* rows and the photo counters unchanged whenever the type is missing or not
\* one of like, rating, comment, favorite, or the type is rating and the
\* rating is missing or not an integer in 1..5, or the type is comment and
\* the text is missing, empty or whitespace only.
InvalidPayloadRejected ==
    [][\A e \in Events, p \in PhotoIds, ci \in ClientInfos, fd \in FeedbackDatas :
          (Invalid(fd) /\ SubmitFeedback(e, p, fd, ci)) =>
              /\ last'.error \in ValidationErrors
              /\ UNCHANGED <<rows, photos>>]_vars

Visible(p) == {r \in rows : r.photo_id = p /\ ~r.is_hidden}

\* C6: when the calls do not overlap, after every call the like_count and
\* favorite_count of each photo are the numbers of its non-hidden like and
\* favorite rows, and feedback_count is the number of distinct guest
\* identifiers among its non-hidden rows.
CountersMatchRows ==
    \A p \in PhotoIds :
        /\ photos[p].like_count =
              Cardinality({r \in Visible(p) : r.feedback_type = "like"})
        /\ photos[p].favorite_count =
              Cardinality({r \in Visible(p) : r.feedback_type = "favorite"})
        /\ \E guests \in SUBSET {r.guest_identifier : r \in rows} :
              /\ \A r \in Visible(p) : r.guest_identifier \in guests
              /\ \A g \in guests : \E r \in Visible(p) : r.guest_identifier = g
              /\ photos[p].feedback_count = Cardinality(guests)

\* one guest has a visible like and a visible favorite on a photo
CountersWitness ==
    \E p \in PhotoIds :
        /\ photos[p].like_count = 1
        /\ photos[p].favorite_count = 1
        /\ photos[p].feedback_count = 1
        /\ last.op = "submitFeedback"

VisibleRatings(p) == {r \in Visible(p) : r.feedback_type = "rating"}

RECURSIVE DenProduct(_)
DenProduct(rs) ==
    IF rs = {} THEN 1
    ELSE LET r == CHOOSE x \in rs : TRUE IN r.rating[2] * DenProduct(rs \ {r})

RECURSIVE ScaledTotal(_, _)
ScaledTotal(rs, scale) ==
    IF rs = {} THEN 0
    ELSE LET r == CHOOSE x \in rs : TRUE
         IN (r.rating[1] * scale) \div r.rating[2] + ScaledTotal(rs \ {r}, scale)

\* C7: when the calls do not overlap, the average_rating of each photo is the
\* sum of the ratings of its non-hidden rating rows divided by their number,
\* and 0 when it has no such row.
AverageIsMean ==
    \A p \in PhotoIds :
        LET rs    == VisibleRatings(p)
            avg   == photos[p].average_rating
            scale == DenProduct(rs)
        IN IF rs = {} THEN avg = Num(0)
           ELSE /\ avg[2] > 0
                /\ avg[1] * scale * Cardinality(rs) = ScaledTotal(rs, scale) * avg[2]

\* two guests rated a photo 2 and 5: the mean is 7/2
AverageWitness ==
    \E p \in PhotoIds :
        /\ {r.rating : r \in VisibleRatings(p)} = {Num(2), Num(5)}
        /\ photos[p].average_rating = Frac(7, 2)

\* C8: after every call the stored comment_count of each photo is the number
\* of its non-hidden approved comment rows.
CommentCountMatchesRows ==
    \A p \in PhotoIds :
        photos[p].comment_count =
            Cardinality({r \in Visible(p) : r.feedback_type = "comment" /\ r.is_approved})

ValidComments ==
    {fd \in FeedbackDatas : Validate(fd) = "" /\ fd.feedback_type = "comment"}

\* C9: a comment that submitFeedback inserts is stored with is_approved=false
\* exactly when the settings stored for the event have moderate_comments=true,
\* whatever the submitted feedback data holds.
CommentHeldPerSettings ==
    [][\A e \in Events, p \in PhotoIds, ci \in ClientInfos, fd \in ValidComments :
          (/\ Matching(rows, e, p, GuestId(ci), "comment") = {}
           /\ SubmitFeedback(e, p, fd, ci)) =>
              \A r \in rows' \ rows :
                  r.is_approved = ~GetEventFeedbackSettings(settings, e).moderate_comments]_vars

\* the row as the moderation action is to leave it
Moderated(r, action) ==
    IF action = "approve" THEN [r EXCEPT !.is_approved = TRUE, !.is_hidden = FALSE]
    ELSE IF action = "hide" THEN [r EXCEPT !.is_hidden = TRUE]
    ELSE [r EXCEPT !.is_approved = FALSE, !.is_hidden = TRUE]

\* C10: moderateFeedback on an existing row changes that row's flags and
\* nothing else in the table: approve makes it approved and visible, whatever
\* its flags were; hide makes it hidden and keeps is_approved; reject makes
\* it unapproved and hidden.
ModerationSetsFlags ==
    [][\A r \in rows, action \in ModerationActions, admin \in Admins :
          ModerateFeedback(r.id, action, admin) =>
              rows' = (rows \ {r}) \cup {Moderated(r, action)}]_vars

\* a row that was rejected (unapproved and hidden) has been approved again
ModerationWitness ==
    /\ Len(audit) = 2
    /\ audit[1].details.action = "reject"
    /\ audit[2].details.action = "approve"
    /\ audit[1].details.feedback_id = audit[2].details.feedback_id
    /\ \E r \in rows : /\ r.id = audit[2].details.feedback_id
                       /\ r.is_approved /\ ~r.is_hidden
    /\ last.op = "moderateFeedback"

\* avg is the sum of the ratings of the rating rows rs divided by their number,
\* and 0 when there is none
IsMeanOf(avg, rs) ==
    LET scale == DenProduct(rs)
    IN IF rs = {} THEN avg = Num(0)
       ELSE /\ avg[2] > 0
            /\ avg[1] * scale * Cardinality(rs) = ScaledTotal(rs, scale) * avg[2]

\* C11: after a hide on a visible row the row is still in the table, hidden,
\* and the stored aggregates of its photo are made of the photo's other
\* visible rows only: like_count, favorite_count, average_rating and
\* feedback_count are the aggregates of those rows, and comment_count holds
\* no more than their approved comments.
HiddenRowNotCounted ==
    [][\A r \in rows, admin \in Admins :
          (~r.is_hidden /\ ModerateFeedback(r.id, "hide", admin)) =>
              LET p    == r.photo_id
                  rest == {x \in rows : x.photo_id = p /\ ~x.is_hidden /\ x # r}
              IN /\ {x \in rows' : x.id = r.id} = {[r EXCEPT !.is_hidden = TRUE]}
                 /\ photos'[p].like_count =
                       Cardinality({x \in rest : x.feedback_type = "like"})
                 /\ photos'[p].favorite_count =
                       Cardinality({x \in rest : x.feedback_type = "favorite"})
                 /\ IsMeanOf(photos'[p].average_rating,
                             {x \in rest : x.feedback_type = "rating"})
                 /\ photos'[p].feedback_count =
                       Cardinality({x.guest_identifier : x \in rest})
                 /\ photos'[p].comment_count <=
                       Cardinality({x \in rest : x.feedback_type = "comment"
                                                  /\ x.is_approved})]_vars

\* a rating of 5 was hidden next to another guest's visible rating of 2: the
\* stored average is 2 and one guest is counted
HiddenRowWitness ==
    /\ last = Returned("moderateFeedback", "", last.id)
    /\ audit # <<>>
    /\ audit[Len(audit)].activity_type = "feedback_moderated"
    /\ audit[Len(audit)].details.action = "hide"
    /\ \E r \in rows : /\ r.id = last.id
                       /\ r.is_hidden
                       /\ r.feedback_type = "rating"
                       /\ r.rating = Num(5)
                       /\ photos[r.photo_id].average_rating = Num(2)
                       /\ photos[r.photo_id].feedback_count = 1

\* C12: moderateFeedback and deleteFeedback with an id that no row has throw
\* the not-found error and leave the feedback rows, the photo counters and
\* the activity log as they were.
UnknownIdRejected ==
    [][\A id \in FeedbackIds, admin \in Admins :
          (ById(rows, id) = {}) =>
              /\ \A action \in ModerationActions :
                    ModerateFeedback(id, action, admin) =>
                        /\ last' = Threw("moderateFeedback", "Feedback not found")
                        /\ UNCHANGED <<rows, photos, audit>>
              /\ DeleteFeedback(id, admin) =>
                    /\ last' = Threw("deleteFeedback", "Feedback not found")
                    /\ UNCHANGED <<rows, photos, audit>>]_vars

\* a deleted row's id was used again: the call threw, while another row, its
\* counters and the log entry of the deletion are in place
UnknownIdWitness ==
    /\ last = Threw("deleteFeedback", "Feedback not found")
    /\ rows # {}
    /\ \E p \in PhotoIds : photos[p].feedback_count > 0
    /\ Len(audit) = 1
    /\ audit[1].activity_type = "feedback_deleted"
    /\ ById(rows, audit[1].details.feedback_id) = {}

\* C13: deleteFeedback on an existing id removes that row and no other, leaves
\* the photo's counters as the aggregates of the rows that remain after the
\* removal, appends one feedback_deleted entry with the deleted row's
\* feedback_type and event to the activity log, and returns true.
DeleteRemovesRecomputesLogs ==
    [][\A r \in rows, admin \in Admins :
          DeleteFeedback(r.id, admin) =>
              LET p    == r.photo_id
                  rest == {x \in rows : x.photo_id = p /\ ~x.is_hidden /\ x # r}
              IN /\ rows' = rows \ {r}
                 /\ photos'[p].like_count =
                       Cardinality({x \in rest : x.feedback_type = "like"})
                 /\ photos'[p].favorite_count =
                       Cardinality({x \in rest : x.feedback_type = "favorite"})
                 /\ IsMeanOf(photos'[p].average_rating,
                             {x \in rest : x.feedback_type = "rating"})
                 /\ photos'[p].feedback_count =
                       Cardinality({x.guest_identifier : x \in rest})
                 /\ \A q \in PhotoIds \ {p} : photos'[q] = photos[q]
                 /\ Len(audit') = Len(audit) + 1
                 /\ SubSeq(audit', 1, Len(audit)) = audit
                 /\ audit'[Len(audit')].activity_type = "feedback_deleted"
                 /\ audit'[Len(audit')].details.feedback_id = r.id
                 /\ audit'[Len(audit')].details.feedback_type = r.feedback_type
                 /\ audit'[Len(audit')].event_id = r.event_id
                 /\ last' = Returned("deleteFeedback", "", r.id)]_vars

\* a rating was deleted next to another guest's visible rating of 2: the
\* stored average is 2 and the log's last entry names a rating
DeleteWitness ==
    /\ last = Returned("deleteFeedback", "", last.id)
    /\ ById(rows, last.id) = {}
    /\ audit # <<>>
    /\ audit[Len(audit)].activity_type = "feedback_deleted"
    /\ audit[Len(audit)].details.feedback_type = "rating"
    /\ \E r \in rows : /\ r.feedback_type = "rating"
                       /\ ~r.is_hidden
                       /\ photos[r.photo_id].average_rating = Num(2)
                       /\ photos[r.photo_id].feedback_count = 1

\* C20: when the guest already has a comment row on the photo, submitting
\* another comment replaces that row's text and sets its is_approved to true,
\* whatever the event's moderate_comments setting, the payload and the row's
\* flags were; no row is added, no other row changes and is_hidden stays.
EditedCommentApproved ==
    [][\A e \in Events, p \in SubmitPhotos, fd \in EditPayloads, ci \in ClientInfos :
          \A r \in Matching(rows, e, p, GuestId(ci), "comment") :
              SubmitFeedback(e, p, fd, ci) =>
                  rows' = (rows \ {r}) \cup
                             {[r EXCEPT !.comment_text = fd.comment,
                                        !.is_approved = TRUE]}]_vars

\* the event moderates comments, a comment was rejected, and its guest sent a
\* new text: the row is approved again and still hidden
EditedCommentWitness ==
    /\ last = Returned("submitFeedback", "updated", last.id)
    /\ GetEventFeedbackSettings(settings, "e1").moderate_comments
    /\ settings # {}
    /\ audit # <<>>
    /\ audit[Len(audit)].activity_type = "feedback_moderated"
    /\ audit[Len(audit)].details.action = "reject"
    /\ \E r \in rows : /\ r.id = last.id
                       /\ r.id = audit[Len(audit)].details.feedback_id
                       /\ r.comment_text = <<" ", "b">>
                       /\ r.is_approved
                       /\ r.is_hidden

\* the photos on which the guest has a non-hidden row of the type in the event
GuestPhotos(e, g, type) ==
    {p \in PhotoIds : \E r \in rows : /\ r.photo_id = p
                                      /\ r.event_id = e
                                      /\ r.guest_identifier = g
                                      /\ r.feedback_type = type
                                      /\ ~r.is_hidden}

Set(filters, f) == f \in DOMAIN filters /\ filters[f] = TRUE

\* the ids the filters select by definition
ReferencePhotos(e, g, filters) ==
    IF Set(filters, "liked") /\ Set(filters, "favorited")
    THEN IF "operator" \in DOMAIN filters /\ filters.operator = "AND"
         THEN GuestPhotos(e, g, "like") \cap GuestPhotos(e, g, "favorite")
         ELSE GuestPhotos(e, g, "like") \cup GuestPhotos(e, g, "favorite")
    ELSE IF Set(filters, "liked") THEN GuestPhotos(e, g, "like")
    ELSE IF Set(filters, "favorited") THEN GuestPhotos(e, g, "favorite")
    ELSE {p \in PhotoIds : PhotoEvent[p] = e}

\* C14: getFilteredPhotos returns every photo of the event when neither
\* filter is set, the guest's liked (favorited) photos of the event when one
\* is set, their union when both are set with OR (the default), and their
\* intersection when both are set with AND; only the guest's own non-hidden
\* rows of the event count.
\* (The call leaves the tables as they are, so the state it returns in holds
\* the rows it read.)
FilterMatchesReference ==
    last.op = "getFilteredPhotos" =>
        last.result = ReferencePhotos(last.args[1], last.args[2], last.args[3])

\* AND of liked and favorited came back empty for a guest who likes one photo
\* and has favorited the other
FilterWitness ==
    /\ last.op = "getFilteredPhotos"
    /\ last.args = <<"e1", "g1", [liked |-> TRUE, favorited |-> TRUE, operator |-> "AND"]>>
    /\ last.result = {}
    /\ GuestPhotos("e1", "g1", "like") # {}
    /\ GuestPhotos("e1", "g1", "favorite") # {}

\* the photos table with other numbers in the counters of photo p
OtherCounters(phs, p) ==
    [phs EXCEPT ![p].like_count = @ + 1,
                ![p].favorite_count = @ + 1,
                ![p].feedback_count = @ + 1,
                ![p].average_rating = IF @ = Num(5) THEN Num(1) ELSE Num(5)]

\* C15: when updatePhotoFeedbackStats has written the aggregates of the rows
\* as they are, running it again on the same rows leaves the photos table as
\* the first run left it, and the first run would have left the same table
\* had other numbers been stored in the photo's counters before.
RecomputeIdempotent ==
    [][\A c \in Procs :
          (UpdatePhoto(c) /\ calls[c].stats = Stats(rows, calls[c].photoId)) =>
              /\ UpdatePhotoFeedbackStats(photos', rows', calls[c].photoId) = photos'
              /\ UpdatePhotoFeedbackStats(OtherCounters(photos, calls[c].photoId), rows,
                                          calls[c].photoId) = photos']_vars

\* a direct call of updatePhotoFeedbackStats has returned with a visible like
\* counted, and a second one has read the same rows and is about to write
RecomputeWitness ==
    /\ last = Returned("updatePhotoFeedbackStats", "", 0)
    /\ \E c \in Procs :
          /\ calls[c].pc = "update"
          /\ calls[c].op = "updatePhotoFeedbackStats"
          /\ calls[c].stats = Stats(rows, calls[c].photoId)
          /\ calls[c].stats.like_count = 1
          /\ photos[calls[c].photoId].like_count = 1
          /\ \A d \in Procs \ {c} : calls[d].pc = "idle"

\* every call has returned
Quiescent == \A c \in Procs : calls[c].pc = "idle"

\* C19 as stated: once all the overlapping calls have returned, the counters
\* stored on each photo are the aggregates of the rows then in the table.
ConsistentOnceReturned == Quiescent => (CountersMatchRows /\ AverageIsMean)

\* C19: the aggregate read of a call yields the aggregates of the rows as
\* they are at the read, and the call's counter write stores exactly what
\* that read yielded, whatever has happened to the rows since; the write that
\* comes last stands.
SnapshotWritten ==
    [][\A c \in Procs :
          /\ QueryStats(c) =>
                LET visible == Visible(calls[c].photoId)
                    st      == calls'[c].stats
                IN /\ st.like_count =
                         Cardinality({r \in visible : r.feedback_type = "like"})
                   /\ st.favorite_count =
                         Cardinality({r \in visible : r.feedback_type = "favorite"})
                   /\ st.feedback_count =
                         Cardinality({r.guest_identifier : r \in visible})
                   /\ IF {r \in visible : r.feedback_type = "rating"} = {}
                      THEN st.average_rating = NULL
                      ELSE IsMeanOf(st.average_rating,
                                    {r \in visible : r.feedback_type = "rating"})
          /\ UpdatePhoto(c) =>
                LET p  == calls[c].photoId
                    st == calls[c].stats
                IN /\ photos'[p].like_count = st.like_count
                   /\ photos'[p].favorite_count = st.favorite_count
                   /\ photos'[p].feedback_count = st.feedback_count
                   /\ photos'[p].average_rating =
                         IF st.average_rating = NULL THEN Num(0) ELSE st.average_rating
                   /\ \A q \in PhotoIds \ {p} : photos'[q] = photos[q]]_vars

\* every call has returned and a like is counted on a photo that has no
\* visible like
StaleCounters ==
    /\ Quiescent
    /\ last.op # "none"
    /\ \E p \in PhotoIds :
          /\ photos[p].like_count = 1
          /\ {r \in Visible(p) : r.feedback_type = "like"} = {}

\* C16: every step in which categoryId changes leaves the set of selected
\* photo ids empty, whatever was selected and whether selection mode is on
\* or off.
SelectionClearedOnCategoryChange == [][categoryId' # categoryId => selectedPhotos' = {}]_vars

\* both photos were selected and their download is in flight when the grid is
\* given the category: selection mode is still on and nothing is selected
CategoryChangeWitness ==
    /\ categoryId = "c1"
    /\ isSelectionMode
    /\ selectedPhotos = {}
    /\ \E b \in DOMAIN downloads :
          /\ downloads[b].pc = "await"
          /\ downloads[b].count = 2
          /\ \A i \in DOMAIN downloads[b].requests :
                downloads[b].requests[i].state = "pending"

BatchOutcomeReported ==
    [][\A b \in DOMAIN downloads :
          FinishDownload(b) =>
              LET states == {downloads[b].requests[i].state :
                                i \in DOMAIN downloads[b].requests}
                  shown  == {toasts'[k].kind : k \in (Len(toasts) + 1)..Len(toasts')}
              IN /\ states = {"rejected"} => shown = {"error"}
                 /\ states = {"fulfilled"} => shown = {"success"}]_vars

\* C21: a click on the photo at an index outside selection mode and without
\* ctrl/cmd sets selectedPhotoIndex to that index and leaves the selection and
\* the mode; a click in selection mode or with ctrl/cmd adds the photo's id to
\* the selection if it is absent and removes it if it is present, leaves
\* selectedPhotoIndex, and leaves selection mode on.
ClickOpensOrToggles ==
    [][\A index \in Indices(categoryId), ctrlOrMeta \in BOOLEAN :
          HandlePhotoClick(index, ctrlOrMeta) =>
              LET id == GridPhotos(categoryId)[index + 1]
              IN IF ~isSelectionMode /\ ~ctrlOrMeta
                 THEN /\ selectedPhotoIndex' = index
                      /\ UNCHANGED <<selectedPhotos, isSelectionMode>>
                 ELSE /\ id \in selectedPhotos => selectedPhotos' = selectedPhotos \ {id}
                      /\ id \notin selectedPhotos =>
                            selectedPhotos' = selectedPhotos \cup {id}
                      /\ selectedPhotoIndex' = selectedPhotoIndex
                      /\ isSelectionMode']_vars

\* under the category, where no selection control is rendered and the
\* selection started empty, a click has selected the photo and no lightbox is
\* open
ClickWitness ==
    /\ categoryId = "c1"
    /\ isSelectionMode
    /\ selectedPhotos = {2}
    /\ selectedPhotoIndex = NoIndex

\* C22: in every reachable state of the grid a non-empty selection implies
\* that selection mode is on.
SelectionOnlyInSelectionMode == selectedPhotos # {} => isSelectionMode

\* a bulk download has left selection mode with an empty selection, and a
\* photo has been selected again since
SelectionAfterLeavingWitness ==
    /\ Len(tracked) > 0
    /\ selectedPhotos # {}
    /\ isSelectionMode

\* C23: a submitFeedback call for (event, photo, guest, type) changes the
\* photo_feedback table in at most one row, a row of that event, photo, guest
\* and type, and leaves the stored counters of every other photo.
SubmitTouchesOneRow ==
    [][\A e \in Events, p \in PhotoIds, fd \in FramePayloads, ci \in ClientInfos :
          SubmitFeedback(e, p, fd, ci) =>
              LET changed == (rows \ rows') \cup (rows' \ rows)
              IN /\ \A r \in changed :
                        /\ r.event_id = e
                        /\ r.photo_id = p
                        /\ r.guest_identifier = GuestId(ci)
                        /\ r.feedback_type = fd.feedback_type
                 /\ Cardinality({r.id : r \in changed}) <= 1
                 /\ \A q \in PhotoIds \ {p} : photos'[q] = photos[q]]_vars

\* a call has updated a guest's row while a row on another photo, counted in
\* that photo's counters, is in the table
SubmitFrameWitness ==
    /\ last = Returned("submitFeedback", "updated", last.id)
    /\ \E r \in rows, o \in rows :
          /\ r.id = last.id
          /\ o.photo_id # r.photo_id
          /\ photos[o.photo_id].feedback_count = 1

\* C24: a like or favorite submitted by a guest whose row of that type on that
\* photo is hidden deletes the hidden row, adds no row and returns action
\* 'removed', while getFilteredPhotos with the filter of that type does not
\* list the photo for the guest.
HiddenRowToggledOff ==
    [][\A s \in FilterSubmissions :
          LET guestId == GuestId(s[4])
              type    == s[3].feedback_type
              hidden  == {r \in rows : /\ r.event_id = s[1]
                                        /\ r.photo_id = s[2]
                                        /\ r.guest_identifier = guestId
                                        /\ r.feedback_type = type
                                        /\ r.is_hidden}
          IN (hidden # {} /\ SubmitFeedback(s[1], s[2], s[3], s[4])) =>
                /\ rows' = rows \ hidden
                /\ \E r \in hidden : last' = Returned("submitFeedback", "removed", r.id)
                /\ s[2] \notin FilteredPhotos(rows, photos, s[1], guestId,
                                              [liked     |-> type = "like",
                                               favorited |-> type = "favorite"])]_vars

\* a submission has removed a row that a moderation had hidden
HiddenRowRemovedWitness ==
    /\ last = Returned("submitFeedback", "removed", last.id)
    /\ \E i \in DOMAIN audit :
          /\ audit[i].activity_type = "feedback_moderated"
          /\ audit[i].details.action = "hide"
          /\ audit[i].details.feedback_id = last.id

\* C25: moderateFeedback called on an existing row with an action that is
\* none of approve, hide and reject leaves the row's is_approved and
\* is_hidden, stores the photo's counters recomputed from its visible rows,
\* appends a feedback_moderated entry carrying that action to the activity
\* log and returns without an error.
UnknownActionSucceeds ==
    [][\A r \in rows, action \in UnknownActions, admin \in Admins :
          ModerateFeedback(r.id, action, admin) =>
              LET p       == r.photo_id
                  visible == {x \in rows' : x.photo_id = p /\ ~x.is_hidden}
              IN /\ \E x \in rows' : /\ x.id = r.id
                                      /\ x.is_approved = r.is_approved
                                      /\ x.is_hidden = r.is_hidden
                 /\ photos'[p].like_count =
                       Cardinality({x \in visible : x.feedback_type = "like"})
                 /\ photos'[p].favorite_count =
                       Cardinality({x \in visible : x.feedback_type = "favorite"})
                 /\ IsMeanOf(photos'[p].average_rating,
                             {x \in visible : x.feedback_type = "rating"})
                 /\ photos'[p].feedback_count =
                       Cardinality({x.guest_identifier : x \in visible})
                 /\ Len(audit') = Len(audit) + 1
                 /\ SubSeq(audit', 1, Len(audit)) = audit
                 /\ audit'[Len(audit')].activity_type = "feedback_moderated"
                 /\ audit'[Len(audit')].details.feedback_id = r.id
                 /\ audit'[Len(audit')].details.action = action
                 /\ audit'[Len(audit')].event_id = r.event_id
                 /\ last' = Returned("moderateFeedback", "", r.id)]_vars

\* the last call moderated a hidden row with the action "unhide": the row is
\* still hidden and the log's last entry carries the action
UnknownActionWitness ==
    /\ last = Returned("moderateFeedback", "", last.id)
    /\ Len(audit) > 0
    /\ audit[Len(audit)].activity_type = "feedback_moderated"
    /\ audit[Len(audit)].details.action = "unhide"
    /\ \E r \in rows : /\ r.id = last.id
                        /\ r.id = audit[Len(audit)].details.feedback_id
                        /\ r.is_hidden

====
